---- MODULE Spec2Model ----
(***************************************************************************)
(* Model of scripts/meshroom2nerf.py: the conversion of a Meshroom SfM     *)
(* record into a normalised NeRF pose set (pose extraction, up-vector      *)
(* rotation, attention-centre recentring, scale normalisation, output).    *)
(*                                                                         *)
(* Numbers.  A float is modelled as an exact rational <<n, d>> in lowest   *)
(* terms with d > 0, or as one of the IEEE special values, encoded with a  *)
(* zero denominator: <<0,0>> is NaN, <<1,0>> is +inf, <<-1,0>> is -inf.    *)
(* The arithmetic operators follow IEEE rules on the special values        *)
(* (0/0 = NaN, x/0 = +-inf, 0*inf = NaN, inf-inf = NaN, comparisons with   *)
(* NaN are false).  Rounding is not modelled: a finite result is the exact *)
(* real result.  Every divisor that can be zero in the script is a norm or *)
(* a sum of norms, hence +0.0, so signed zeros are not needed.             *)
(*                                                                         *)
(* The numeric operations are TLA+ functions: a function is applied to the *)
(* values of its arguments, as a Python call is.                           *)
(***************************************************************************)
EXTENDS Integers, Sequences, FiniteSets, TLC

\* ------------------------------------------------------------------ numbers
Num == Int \X Int

Vec == Num \X Num \X Num

Mat == Seq(Seq(Num))

Abs[i \in Int] == IF i < 0 THEN 0 - i ELSE i

Sgn[i \in Int] == IF i < 0 THEN 0 - 1 ELSE IF i > 0 THEN 1 ELSE 0

GCD[a \in Nat, b \in Nat] == IF b = 0 THEN a ELSE GCD[b, a % b]

NaN == <<0, 0>>

PInf == <<1, 0>>

NInf == <<0 - 1, 0>>

Zero == <<0, 1>>

One == <<1, 1>>

IsNaN(x) == x = NaN

IsInf(x) == x[2] = 0 /\ x[1] # 0

IsFinite(x) == x[2] > 0

\* the float n/d, in lowest terms, for integers n and d > 0
Q[n \in Int, d \in Nat] == <<n \div GCD[Abs[n], d], d \div GCD[Abs[n], d]>>

\* the float of an integer
Fl(n) == <<n, 1>>

Neg[x \in Num] == <<0 - x[1], x[2]>>

Add[x \in Num, y \in Num] ==
    IF IsNaN(x) \/ IsNaN(y) THEN NaN
    ELSE IF IsInf(x) THEN (IF IsInf(y) /\ y # x THEN NaN ELSE x)
    ELSE IF IsInf(y) THEN y
    ELSE LET l == (x[2] \div GCD[x[2], y[2]]) * y[2]
         IN Q[x[1] * (l \div x[2]) + y[1] * (l \div y[2]), l]

Sub[x \in Num, y \in Num] == Add[x, Neg[y]]

Mul[x \in Num, y \in Num] ==
    IF IsNaN(x) \/ IsNaN(y) THEN NaN
    ELSE IF IsInf(x) \/ IsInf(y)
         THEN (IF x[1] = 0 \/ y[1] = 0 THEN NaN ELSE <<Sgn[x[1]] * Sgn[y[1]], 0>>)
    ELSE LET g1 == GCD[Abs[x[1]], y[2]]
             g2 == GCD[Abs[y[1]], x[2]]
         IN <<(x[1] \div g1) * (y[1] \div g2), (x[2] \div g2) * (y[2] \div g1)>>

\* numpy true division: a zero divisor gives NaN or +-inf, never an exception
Div[x \in Num, y \in Num] ==
    IF IsNaN(x) \/ IsNaN(y) THEN NaN
    ELSE IF IsInf(y) THEN (IF IsInf(x) THEN NaN ELSE Zero)
    ELSE IF y[1] = 0 THEN <<Sgn[x[1]], 0>>
    ELSE IF IsInf(x) THEN <<Sgn[x[1]] * Sgn[y[1]], 0>>
    ELSE Mul[x, <<Sgn[y[1]] * y[2], Abs[y[1]]>>]

\* x > y on floats (False when either side is NaN)
Gt[x \in Num, y \in Num] ==
    IF IsNaN(x) \/ IsNaN(y) THEN FALSE
    ELSE IF x = y THEN FALSE
    ELSE IF x = PInf \/ y = NInf THEN TRUE
    ELSE IF x = NInf \/ y = PInf THEN FALSE
    ELSE Sub[x, y][1] > 0

\* Newton's iteration from above: r decreases to the floor of the root
ISqrtFrom[n \in Nat, r \in Nat] ==
    IF (r + n \div r) \div 2 >= r THEN r ELSE ISqrtFrom[n, (r + n \div r) \div 2]

\* floor of the square root of a natural number
ISqrt[n \in Nat] == IF n < 2 THEN n ELSE ISqrtFrom[n, n]

IsSquare(x) ==
    IsFinite(x) /\ x[1] >= 0 /\ ISqrt[x[1]] * ISqrt[x[1]] = x[1]
                /\ ISqrt[x[2]] * ISqrt[x[2]] = x[2]

\* sqrt of a float: exact on squares of rationals, which are the only
\* arguments the inputs of the model produce (see ExactRun)
Sqrt[x \in Num] ==
    IF IsNaN(x) \/ x = NInf THEN NaN
    ELSE IF x = PInf THEN PInf
    ELSE IF x[1] < 0 THEN NaN
    ELSE Q[ISqrt[x[1]], ISqrt[x[2]]]

\* x / (d + 1e-10) for a non-negative d.  1e-10 lies below the resolution of
\* the model's numbers: for d > 0 the quotient is x/d (relative deviation
\* 1e-10/d), for d = 0 it is x*1e10, which is 0 for x = 0 and otherwise
\* exceeds every finite number of the model.
DivEps[x \in Num, d \in Num] ==
    IF IsNaN(x) \/ IsNaN(d) THEN NaN
    ELSE IF d = Zero THEN (IF x = Zero THEN Zero ELSE <<Sgn[x[1]], 0>>)
    ELSE Div[x, d]

\* ------------------------------------------------------- vectors, matrices
VAdd[a \in Vec, b \in Vec] == <<Add[a[1], b[1]], Add[a[2], b[2]], Add[a[3], b[3]]>>

VSub[a \in Vec, b \in Vec] == <<Sub[a[1], b[1]], Sub[a[2], b[2]], Sub[a[3], b[3]]>>

VScale[a \in Vec, k \in Num] == <<Mul[a[1], k], Mul[a[2], k], Mul[a[3], k]>>

VDiv[a \in Vec, k \in Num] == <<Div[a[1], k], Div[a[2], k], Div[a[3], k]>>

Dot[a \in Vec, b \in Vec] == Add[Add[Mul[a[1], b[1]], Mul[a[2], b[2]]], Mul[a[3], b[3]]]

Cross[a \in Vec, b \in Vec] ==
    <<Sub[Mul[a[2], b[3]], Mul[a[3], b[2]]],
      Sub[Mul[a[3], b[1]], Mul[a[1], b[3]]],
      Sub[Mul[a[1], b[2]], Mul[a[2], b[1]]]>>

NormSq[a \in Vec] == Dot[a, a]

\* np.linalg.norm of a 3-vector
Norm[a \in Vec] == Sqrt[NormSq[a]]

\* np.linalg.det of the 3x3 matrix with rows a, b, c
Det3[a \in Vec, b \in Vec, c \in Vec] == Dot[a, Cross[b, c]]

VZero == <<Zero, Zero, Zero>>

VFinite(a) == IsFinite(a[1]) /\ IsFinite(a[2]) /\ IsFinite(a[3])

Row3(m, i) == <<m[i][1], m[i][2], m[i][3]>>

Col3(m, j) == <<m[1][j], m[2][j], m[3][j]>>

\* product of two 3x3 matrices (ndarray.dot) and of two 4x4 matrices
\* (np.matmul)
MatMul3[a \in Mat, b \in Mat] ==
    [i \in 1..3 |-> [j \in 1..3 |->
        Add[Add[Mul[a[i][1], b[1][j]], Mul[a[i][2], b[2][j]]], Mul[a[i][3], b[3][j]]]]]

MatMul4[a \in Mat, b \in Mat] ==
    [i \in 1..4 |-> [j \in 1..4 |->
        Add[Add[Add[Mul[a[i][1], b[1][j]], Mul[a[i][2], b[2][j]]],
                Mul[a[i][3], b[3][j]]], Mul[a[i][4], b[4][j]]]]]

Eye3 == <<<<One, Zero, Zero>>, <<Zero, One, Zero>>, <<Zero, Zero, One>>>>

Det3M(m) == Det3[Row3(m, 1), Row3(m, 2), Row3(m, 3)]

\* np.linalg.inv of a 4x4 matrix whose last row is (0, 0, 0, 1), as every
\* extrinsic built at line 121 is: the 3x3 block is inverted by its adjugate
\* (row i of the inverse is a cross product of two columns, over the
\* determinant) and the translation becomes -A^-1 t.  The caller handles a
\* zero determinant.
Inv4[m \in Mat] ==
    LET WithInverse[inv \in Mat, t \in Vec] ==
            <<<<inv[1][1], inv[1][2], inv[1][3], Neg[Dot[inv[1], t]]>>,
              <<inv[2][1], inv[2][2], inv[2][3], Neg[Dot[inv[2], t]]>>,
              <<inv[3][1], inv[3][2], inv[3][3], Neg[Dot[inv[3], t]]>>,
              <<Zero, Zero, Zero, One>>>>
        Adjugate[d \in Num] ==
            <<VDiv[Cross[Col3(m, 2), Col3(m, 3)], d],
              VDiv[Cross[Col3(m, 3), Col3(m, 1)], d],
              VDiv[Cross[Col3(m, 1), Col3(m, 2)], d]>>
    IN WithInverse[Adjugate[Det3M(m)], <<m[1][4], m[2][4], m[3][4]>>]

\* ------------------------------------------------------------------ rotmat
\* rotmat(a, b), lines 18-24.  s ** 2 is the squared norm of v (the square
\* root and the square cancel); kmat.dot(kmat) * ((1 - c) / (s ** 2 + 1e-10))
\* is evaluated entry by entry as (k2[i][j] * (1 - c)) / (s ** 2 + 1e-10),
\* the same real number, so that a zero entry of k2 stays zero when s = 0.
rotmat[a \in Vec, b \in Vec] ==
    LET Rodrigues[kmat \in Mat, k2 \in Mat, c \in Num, s2 \in Num] ==
            [i \in 1..3 |-> [j \in 1..3 |->
                Add[Add[Eye3[i][j], kmat[i][j]],
                    DivEps[Mul[k2[i][j], Sub[One, c]], s2]]]]
        WithKmat[kmat \in Mat, c \in Num, s2 \in Num] ==
            Rodrigues[kmat, MatMul3[kmat, kmat], c, s2]
        WithCross[v \in Vec, c \in Num] ==
            WithKmat[<<<<Zero, Neg[v[3]], v[2]>>,
                       <<v[3], Zero, Neg[v[1]]>>,
                       <<Neg[v[2]], v[1], Zero>>>>, c, NormSq[v]]
        Unit[an \in Vec, bn \in Vec] == WithCross[Cross[an, bn], Dot[an, bn]]
    IN Unit[VDiv[a, Norm[a]], VDiv[b, Norm[b]]]

\* --------------------------------------------------- closest_point_2_lines
\* lines 27-40: <<point, weight>>
closest_point_2_lines[oa \in Vec, da0 \in Vec, ob \in Vec, db0 \in Vec] ==
    LET Clamp[t \in Num] == IF Gt[t, Zero] THEN Zero ELSE t
        Result[da \in Vec, db \in Vec, ta \in Num, tb \in Num, denom \in Num] ==
            <<VScale[VAdd[VAdd[VAdd[oa, VScale[da, ta]], ob], VScale[db, tb]], Q[1, 2]],
              denom>>
        Offsets[da \in Vec, db \in Vec, c \in Vec, denom \in Num, t \in Vec] ==
            Result[da, db, Clamp[DivEps[Det3[t, db, c], denom]],
                           Clamp[DivEps[Det3[t, da, c], denom]], denom]
        WithCross[da \in Vec, db \in Vec, c \in Vec] ==
            Offsets[da, db, c, NormSq[c], VSub[ob, oa]]
        Unit[da \in Vec, db \in Vec] == WithCross[da, db, Cross[da, db]]
    IN Unit[VDiv[da0, Norm[da0]], VDiv[db0, Norm[db0]]]

\* ------------------------------------------------------------- the input
\* Largest number of views in a complete SfM record of the model, and in a
\* record that lacks a field.
MaxViews == 3

MaxDefectViews == 2

\* The pose table of the SfM record: sfm["poses"], each entry with the nine
\* rotation numbers and the three centre numbers the script reads at lines
\* 64-65.  Every rotation is orthonormal.  The cameras 1 to 4 look at the one
\* point (1, 2, 3) of the SfM frame.  In the coordinates of the output,
\* relative to that point, the cameras are: 1 and 2 at distance 5 and 3 at
\* distance 10 in the plane z = 0, with up = +z; 4 as 1 with up = -z; 5 at
\* the position of 2 with the orientation of 1; 6 and 7 with up = +y at
\* distance 3 and 4 on two perpendicular axes, looking away from the point.
Poses == <<
    [poseId |-> 1, rotation |-> <<Fl(1), Fl(0), Fl(0), Fl(0), Fl(0), Fl(0 - 1), Fl(0), Fl(1), Fl(0)>>,
     center |-> <<Fl(1), Fl(7), Fl(3)>>],
    [poseId |-> 2, rotation |-> <<Fl(0), Fl(0), Fl(0 - 1), Fl(0 - 1), Fl(0), Fl(0), Fl(0), Fl(1), Fl(0)>>,
     center |-> <<Fl(6), Fl(2), Fl(3)>>],
    [poseId |-> 3, rotation |-> <<Q[3, 5], Fl(0), Q[0 - 4, 5], Q[0 - 4, 5], Fl(0), Q[0 - 3, 5], Fl(0), Fl(1), Fl(0)>>,
     center |-> <<Fl(9), Fl(8), Fl(3)>>],
    [poseId |-> 4, rotation |-> <<Fl(0 - 1), Fl(0), Fl(0), Fl(0), Fl(0), Fl(0 - 1), Fl(0), Fl(0 - 1), Fl(0)>>,
     center |-> <<Fl(1), Fl(7), Fl(3)>>],
    [poseId |-> 5, rotation |-> <<Fl(1), Fl(0), Fl(0), Fl(0), Fl(0), Fl(0 - 1), Fl(0), Fl(1), Fl(0)>>,
     center |-> <<Fl(6), Fl(2), Fl(3)>>],
    [poseId |-> 6, rotation |-> <<Fl(0), Fl(0 - 1), Fl(0), Fl(0), Fl(0), Fl(1), Fl(0 - 1), Fl(0), Fl(0)>>,
     center |-> <<Fl(1), Fl(5), Fl(3)>>],
    [poseId |-> 7, rotation |-> <<Fl(0), Fl(0 - 1), Fl(0), Fl(0 - 1), Fl(0), Fl(0), Fl(0), Fl(0), Fl(0 - 1)>>,
     center |-> <<Fl(1), Fl(2), Fl(0 - 1)>>] >>

PoseIds == {Poses[i].poseId : i \in 1..Len(Poses)}

\* a poseId no pose of the table has
AbsentPoseId == Len(Poses) + 1

\* The field an input record lacks ("none": the record is complete).  "pose",
\* "transform", "rotation" and "center" are lacking in the pose entry with
\* poseId DefectPoseId, the other fields at the top level or in intrinsics[0].
Defects == {"none", "views", "poses", "pose", "transform", "rotation", "center",
            "intrinsics", "width", "height", "pxFocalLength", "principalPoint"}

DefectPoseId == Poses[1].poseId

\* sequences over S of length at most n
RECURSIVE SeqsUpTo(_, _)
SeqsUpTo(S, n) ==
    IF n = 0 THEN {<<>>}
    ELSE LET shorter == SeqsUpTo(S, n - 1)
         IN shorter \cup {Append(q, x) : q \in {r \in shorter : Len(r) = n - 1}, x \in S}

\* sfm["views"] for a sequence of poseIds: view i has viewId i and path d/i
ViewsOf(ids) ==
    [i \in 1..Len(ids) |-> [viewId |-> i, poseId |-> ids[i], path |-> <<"d", i>>]]

\* ------------------------------------------------------- pipeline stages
\* an entry of the list frames (lines 131-134), and the list
Frame == [file_path : {"imgpath"} \X Nat, transform_matrix : Mat]

FrameList == Seq(Frame)

\* lines 124-125: c2w[0:3, j] *= -1 (j counted from 1)
NegateColumn[m \in Mat, j \in 1..4] ==
    [i \in 1..4 |-> [k \in 1..4 |-> IF i <= 3 /\ k = j THEN Neg[m[i][k]] ELSE m[i][k]]]

\* line 126: the row order [1, 0, 2, 3], counted from 1
RowOrder == <<2, 1, 3, 4>>

\* line 126: c2w = c2w[[1, 0, 2, 3], :]
PermuteRows[m \in Mat] == [i \in 1..4 |-> m[RowOrder[i]]]

\* line 127: c2w[i, :] *= -1 (i counted from 1)
NegateRow[m \in Mat, i \in 1..4] ==
    [k \in 1..4 |-> [j \in 1..4 |-> IF k = i THEN Neg[m[k][j]] ELSE m[k][j]]]

\* AxisConvention without the sign flip of line 127
AxisConvention_noRowFlip(m) == PermuteRows[NegateColumn[NegateColumn[m, 3], 2]]

\* lines 124-127: the axis-convention transforms applied to c2w
AxisConvention(m) == NegateRow[PermuteRows[NegateColumn[NegateColumn[m, 3], 2]], 3]

\* lines 64-127: the camera-to-world matrix of a pose entry with the nine
\* rotation numbers r and the centre ctr.  The caller handles a singular
\* extrinsic.
c2wOf[r \in Seq(Num), ctr \in Vec] ==
    LET rotation == <<<<r[1], r[4], r[7], Zero>>,
                      <<r[2], r[5], r[8], Zero>>,
                      <<r[3], r[6], r[9], Zero>>,
                      <<Zero, Zero, Zero, One>>>>
        c == <<<<One, Zero, Zero, Neg[ctr[1]]>>,
               <<Zero, One, Zero, Neg[ctr[2]]>>,
               <<Zero, Zero, One, Neg[ctr[3]]>>,
               <<Zero, Zero, Zero, One>>>>
    IN AxisConvention(Inv4[MatMul4[rotation, c]])

\* the extrinsic of a pose entry is singular (np.linalg.inv raises)
Singular(pose) ==
    LET r == pose.rotation
    IN Det3[<<r[1], r[4], r[7]>>, <<r[2], r[5], r[8]>>, <<r[3], r[6], r[9]>>] = Zero

\* m[0:3, 3], the translation column, and m[0:3, j]
Trans(m) == <<m[1][4], m[2][4], m[3][4]>>

ColOf(m, j) == <<m[1][j], m[2][j], m[3][j]>>

\* m with its translation column replaced by t
WithTrans[m \in Mat, t \in Vec] ==
    [i \in 1..4 |-> [j \in 1..4 |-> IF i <= 3 /\ j = 4 THEN t[i] ELSE m[i][j]]]

\* lines 131-134: os.path.basename drops the directory of the view's path,
\* os.path.join puts the images path in front
FrameOf(view, pose) ==
    [file_path |-> <<"imgpath", view.path[2]>>,
     transform_matrix |-> c2wOf[pose.rotation, pose.center]]

\* lines 140-142: R, padded to 4x4
UpRotation[upvec \in Vec] ==
    LET Pad[r3 \in Mat] ==
            [i \in 1..4 |-> [j \in 1..4 |->
                IF i <= 3 /\ j <= 3 THEN r3[i][j]
                ELSE IF i = 4 /\ j = 4 THEN One ELSE Zero]]
    IN Pad[rotmat[upvec, <<Zero, Zero, One>>]]

\* lines 144-145
RotateAll[fs \in FrameList, rot \in Mat] ==
    [i \in 1..Len(fs) |->
        [fs[i] EXCEPT !.transform_matrix = MatMul4[rot, fs[i].transform_matrix]]]

\* the accumulators totw and totp of lines 149-150
Accumulators == [totw : Num, totp : Vec]

\* lines 28-35 without the 1e-10 and before the clamps: the unit directions
\* and the offsets ta, tb along them that Cramer's rule gives for the closest
\* points of the two lines, <<da, db, ta, tb>>.  A zero determinant over a
\* zero denominator (parallel lines) is taken as the offset 0, as the script
\* has it.
CramerOffsets[oa \in Vec, da0 \in Vec, ob \in Vec, db0 \in Vec] ==
    LET Solve[da \in Vec, db \in Vec, c \in Vec, t \in Vec] ==
            <<da, db, DivEps[Det3[t, db, c], NormSq[c]],
                      DivEps[Det3[t, da, c], NormSq[c]]>>
        Unit[da \in Vec, db \in Vec] == Solve[da, db, Cross[da, db], VSub[ob, oa]]
    IN Unit[VDiv[da0, Norm[da0]], VDiv[db0, Norm[db0]]]

\* the frames f and g of the k-th pair of the nested loops over fs
FirstOf(fs, k) == fs[((k - 1) \div Len(fs)) + 1].transform_matrix

SecondOf(fs, k) == fs[((k - 1) % Len(fs)) + 1].transform_matrix

\* <<da, db, ta, tb>> of the k-th pair
OffsetsOf(fs, k) ==
    CramerOffsets[Trans(FirstOf(fs, k)), ColOf(FirstOf(fs, k), 3),
                  Trans(SecondOf(fs, k)), ColOf(SecondOf(fs, k), 3)]

\* PairOf with the offsets used as Cramer's rule gives them, not clamped
PairOf_unclamped(fs, k) ==
    <<VScale[VAdd[VAdd[VAdd[Trans(FirstOf(fs, k)),
                            VScale[OffsetsOf(fs, k)[1], OffsetsOf(fs, k)[3]]],
                       Trans(SecondOf(fs, k))],
                  VScale[OffsetsOf(fs, k)[2], OffsetsOf(fs, k)[4]]], Q[1, 2]],
      NormSq[Cross[OffsetsOf(fs, k)[1], OffsetsOf(fs, k)[2]]]>>

\* PairOf with the point on the first ray alone in place of the mean of
\* the two points
PairOf_firstRay(fs, k) ==
    <<VAdd[Trans(FirstOf(fs, k)),
           VScale[OffsetsOf(fs, k)[1],
                  IF Gt[OffsetsOf(fs, k)[3], Zero] THEN Zero ELSE OffsetsOf(fs, k)[3]]],
      NormSq[Cross[OffsetsOf(fs, k)[1], OffsetsOf(fs, k)[2]]]>>

\* lines 153-155: the point and the weight of the k-th pair of the nested
\* loops over the n frames of fs, f the frame (k - 1) div n, g the frame
\* (k - 1) mod n
PairOf(fs, k) ==
    closest_point_2_lines[
        Trans(fs[((k - 1) \div Len(fs)) + 1].transform_matrix),
        ColOf(fs[((k - 1) \div Len(fs)) + 1].transform_matrix, 3),
        Trans(fs[((k - 1) % Len(fs)) + 1].transform_matrix),
        ColOf(fs[((k - 1) % Len(fs)) + 1].transform_matrix, 3)]

\* lines 156-158
AddPair[acc \in Accumulators, pw \in Vec \X Num] ==
    IF Gt[pw[2], Q[1, 100]]
    THEN [totw |-> Add[acc.totw, pw[2]],
          totp |-> VAdd[acc.totp, VScale[pw[1], pw[2]]]]
    ELSE acc

\* Accumulate with the inner loop running over frames[1:] only
RECURSIVE Accumulate_skipFirst(_, _)
Accumulate_skipFirst(fs, k) ==
    IF k = 0 THEN [totw |-> Zero, totp |-> VZero]
    ELSE IF ((k - 1) % Len(fs)) + 1 = 1 THEN Accumulate_skipFirst(fs, k - 1)
    ELSE AddPair[Accumulate_skipFirst(fs, k - 1), PairOf(fs, k)]

\* lines 149-158: the accumulators after the first k iterations of the
\* inner loop body, the pairs taken in the order of the nested loops
RECURSIVE Accumulate(_, _)
Accumulate(fs, k) ==
    IF k = 0 THEN [totw |-> Zero, totp |-> VZero]
    ELSE AddPair[Accumulate(fs, k - 1), PairOf(fs, k)]

\* line 159: totp /= totw
DivideByWeight[acc \in Accumulators] ==
    [totw |-> acc.totw, totp |-> VDiv[acc.totp, acc.totw]]

\* lines 149-159: totw, and totp after the division
Attention(fs) == DivideByWeight[Accumulate(fs, Len(fs) * Len(fs))]

\* lines 161-162
RecenterAll[fs \in FrameList, p \in Vec] ==
    [i \in 1..Len(fs) |->
        [fs[i] EXCEPT !.transform_matrix =
            WithTrans[fs[i].transform_matrix, VSub[Trans(fs[i].transform_matrix), p]]]]

\* lines 164-166: the sum of the norms of the first k translation columns
RECURSIVE NormSum(_, _)
NormSum(fs, k) ==
    IF k = 0 THEN Zero
    ELSE Add[NormSum(fs, k - 1), Norm[Trans(fs[k].transform_matrix)]]

\* line 170 with the factor k: f["transform_matrix"][0:3, 3] *= k
ScaleBy[fs \in FrameList, k \in Num] ==
    [i \in 1..Len(fs) |->
        [fs[i] EXCEPT !.transform_matrix =
            WithTrans[fs[i].transform_matrix, VScale[Trans(fs[i].transform_matrix), k]]]]

\* ScaleAll with the factor 1.0 / avglen
ScaleAll_unit(fs, len) == ScaleBy[fs, Div[One, len]]

\* ScaleAll with the factor 4.0, the mean distance left out
ScaleAll_noMean(fs, len) == ScaleBy[fs, Fl(4)]

\* ScaleAll with the factor applied to rows 0..2 of the whole matrix
ScaleAll_wholeRows(fs, len) ==
    [i \in 1..Len(fs) |->
        [fs[i] EXCEPT !.transform_matrix =
            [r \in 1..4 |-> [c \in 1..4 |->
                IF r <= 3 THEN Mul[fs[i].transform_matrix[r][c], Div[Fl(4), len]]
                ELSE fs[i].transform_matrix[r][c]]]]]

\* lines 169-170
ScaleAll(fs, len) == ScaleBy[fs, Div[Fl(4), len]]

\* --------------------------------------------------------- the SfM record
PoseFields == {"pose", "transform", "rotation", "center"}

TopFields == {"views", "poses", "intrinsics"}

IntrinsicFields == {"width", "height", "pxFocalLength", "principalPoint"}

\* the record json.load returns for the views with the given poseIds; has is
\* the set of keys present at the top level and in intrinsics[0], and in each
\* pose entry
SfmOf(ids, defect) ==
    [has |-> (TopFields \cup IntrinsicFields) \ {defect},
     views |-> ViewsOf(ids),
     poses |-> [i \in 1..Len(Poses) |->
                  [poseId |-> Poses[i].poseId,
                   has |-> IF Poses[i].poseId = DefectPoseId
                           THEN PoseFields \ {defect} ELSE PoseFields,
                   rotation |-> Poses[i].rotation,
                   center |-> Poses[i].center]]]

\* lines 48-51: the dict the loop over sfm["poses"] builds, a later entry
\* replacing an earlier one with the same poseId
PoseMapOf(poses) ==
    [id \in {poses[i].poseId : i \in 1..Len(poses)} |->
        poses[CHOOSE i \in 1..Len(poses) :
                 /\ poses[i].poseId = id
                 /\ \A j \in 1..Len(poses) : poses[j].poseId = id => j <= i]]

\* LookupFails with the key off by one: the view of the last pose is dropped
LookupFails_offByOne(pm, poseId) ==
    (poseId + 1) \notin DOMAIN pm \/ "pose" \notin pm[poseId].has

\* lines 60-63: the lookup poseMap[poseId]["pose"] raises, and the bare
\* except swallows it
LookupFails(pm, poseId) == poseId \notin DOMAIN pm \/ "pose" \notin pm[poseId].has

\* the frames the view loop appends for the first k views of a complete record
RECURSIVE FramesOf(_, _, _)
FramesOf(views, pm, k) ==
    IF k = 0 THEN <<>>
    ELSE IF LookupFails(pm, views[k].poseId) THEN FramesOf(views, pm, k - 1)
    ELSE Append(FramesOf(views, pm, k - 1), FrameOf(views[k], pm[views[k].poseId]))

\* line 129, summed over the frames
RECURSIVE UpSum(_, _)
UpSum(fs, k) ==
    IF k = 0 THEN VZero ELSE VAdd[UpSum(fs, k - 1), ColOf(fs[k].transform_matrix, 2)]

\* Every norm the run on the record s takes is the square root of the square
\* of a rational (or of a non-finite value), so that Sqrt is exact on it.
Exact(x) == ~IsFinite(x) \/ IsSquare(x)

ExactRun(s) ==
    \A pm \in {PoseMapOf(s.poses)} :
    \A fs0 \in {FramesOf(s.views, pm, Len(s.views))} :
    \A upsum \in {UpSum(fs0, Len(fs0))} :
       /\ Exact(NormSq[upsum])
       /\ \A fs1 \in {RotateAll[fs0, UpRotation[VDiv[upsum, Norm[upsum]]]]} :
             /\ \A i \in 1..Len(fs1) : Exact(NormSq[ColOf(fs1[i].transform_matrix, 3)])
             /\ \A fs2 \in {RecenterAll[fs1, Attention(fs1).totp]} :
                   \A i \in 1..Len(fs2) : Exact(NormSq[Trans(fs2[i].transform_matrix)])

\* the input records of the model: the complete records of at most MaxViews
\* views and the records of at most MaxDefectViews views that lack a field
Inputs ==
    {s \in {SfmOf(ids, "none") : ids \in SeqsUpTo(PoseIds \cup {AbsentPoseId}, MaxViews)}
           \cup {SfmOf(ids, defect) :
                    ids \in SeqsUpTo(PoseIds \cup {AbsentPoseId}, MaxDefectViews),
                    defect \in Defects} :
        ExactRun(s)}

\* ------------------------------------------------------------- the script
VARIABLES sfm, pc, poseMap, vi, frames, up, nframes, R, totw, totp, avglen,
          out, failure, ran

\* c2w of meshroom2nerf.py (lines 123-127), and the variables of
\* scripts/run.py that take part in the choice of the snapshot timepoints:
\* time_offset, current_timepoint, the truth of args.save_snapshot,
\* args.max_time, args.gui, n_steps, testbed.shall_train,
\* testbed.training_step and t.format_dict['elapsed']
VARIABLES c2w, time_offset, current_timepoint, save_snapshot, max_time, gui,
          n_steps, shall_train, training_step, elapsed

runVars == <<time_offset, current_timepoint, save_snapshot, max_time, gui,
             n_steps, shall_train, training_step, elapsed>>

vars == <<sfm, pc, poseMap, vi, frames, up, nframes, R, totw, totp, avglen,
          out, failure, ran, c2w, runVars>>

Eye4 == [i \in 1..4 |-> [j \in 1..4 |-> IF i = j THEN One ELSE Zero]]

\* run.py is not running: its variables hold placeholders
RunIdle ==
    /\ time_offset = 0
    /\ current_timepoint = 0
    /\ save_snapshot = FALSE
    /\ max_time = 0
    /\ gui = FALSE
    /\ n_steps = 0
    /\ shall_train = FALSE
    /\ training_step = 0
    /\ elapsed = 0

\* The state when the script starts: the SfM file holds sfm; nothing is
\* computed yet (R, totw, totp, avglen hold placeholders until their stage
\* has run, see ran).
Init ==
    /\ sfm \in Inputs
    /\ pc = "load"
    /\ poseMap = <<>>
    /\ vi = 0
    /\ frames = <<>>
    /\ up = VZero
    /\ nframes = 0
    /\ R = Eye4
    /\ totw = Zero
    /\ totp = VZero
    /\ avglen = Zero
    /\ out = [written |-> FALSE, frames |-> <<>>]
    /\ failure = "none"
    /\ ran = {}
    /\ c2w = Eye4
    /\ RunIdle

\* the script dies with an uncaught exception
Raise(exc) ==
    /\ pc' = "failed"
    /\ failure' = exc

\* lines 45-46: json.load; no field is looked at
LoadSfm ==
    /\ pc = "load"
    /\ pc' = "poses"
    /\ UNCHANGED <<sfm, poseMap, vi, frames, up, nframes, R, totw, totp, avglen,
                   out, failure, ran>>
    /\ UNCHANGED <<c2w, runVars>>

\* lines 48-51
BuildPoseMap ==
    /\ pc = "poses"
    /\ IF "poses" \notin sfm.has
       THEN /\ Raise("KeyError")
            /\ UNCHANGED poseMap
       ELSE /\ poseMap' = PoseMapOf(sfm.poses)
            /\ pc' = "views"
            /\ UNCHANGED failure
    /\ UNCHANGED <<sfm, vi, frames, up, nframes, R, totw, totp, avglen, out, ran>>
    /\ UNCHANGED <<c2w, runVars>>

\* lines 53-56: frames = [], up = zeros, and the evaluation of sfm["views"]
EnterViewLoop ==
    /\ pc = "views"
    /\ IF "views" \notin sfm.has
       THEN /\ Raise("KeyError")
            /\ UNCHANGED vi
       ELSE /\ vi' = 1
            /\ pc' = "view"
            /\ UNCHANGED failure
    /\ frames' = <<>>
    /\ up' = VZero
    /\ UNCHANGED <<sfm, poseMap, nframes, R, totw, totp, avglen, out, ran>>
    /\ UNCHANGED <<c2w, runVars>>

\* lines 57-134: one iteration of the view loop
NextView ==
    /\ pc = "view"
    /\ vi <= Len(sfm.views)
    /\ LET view == sfm.views[vi]
       IN IF LookupFails(poseMap, view.poseId)
          THEN \* continue
               /\ vi' = vi + 1
               /\ UNCHANGED <<pc, failure, frames, up, ran, c2w>>
          ELSE LET pose == poseMap[view.poseId]
               IN IF {"transform", "rotation", "center"} \ pose.has # {}
                  THEN /\ Raise("KeyError")
                       /\ UNCHANGED <<vi, frames, up, ran, c2w>>
                  ELSE IF Singular(pose)
                  THEN /\ Raise("LinAlgError")
                       /\ UNCHANGED <<vi, frames, up, ran, c2w>>
                  ELSE /\ c2w' = c2wOf[pose.rotation, pose.center]
                       /\ frames' = Append(frames, [file_path |-> FrameOf(view, pose).file_path,
                                                     transform_matrix |-> c2w'])
                       /\ up' = VAdd[up, ColOf(c2w', 2)]
                       /\ vi' = vi + 1
                       /\ ran' = ran \cup {"extract"}
                       /\ UNCHANGED <<pc, failure>>
    /\ UNCHANGED <<sfm, poseMap, nframes, R, totw, totp, avglen, out>>
    /\ UNCHANGED runVars

\* line 136: the view loop is over
ExitViewLoop ==
    /\ pc = "view"
    /\ vi > Len(sfm.views)
    /\ nframes' = Len(frames)
    /\ pc' = "up"
    /\ UNCHANGED <<sfm, poseMap, vi, frames, up, R, totw, totp, avglen, out,
                   failure, ran>>
    /\ UNCHANGED <<c2w, runVars>>

\* lines 138-145
UpVector ==
    /\ pc = "up"
    /\ up' = VDiv[up, Norm[up]]
    /\ R' = UpRotation[up']
    /\ frames' = RotateAll[frames, R']
    /\ ran' = ran \cup {"up"}
    /\ pc' = "center"
    /\ UNCHANGED <<sfm, poseMap, vi, nframes, totw, totp, avglen, out, failure>>
    /\ UNCHANGED <<c2w, runVars>>

\* lines 149-160
AttentionCenter ==
    /\ pc = "center"
    /\ \E att \in {Attention(frames)} :
          /\ totw' = att.totw
          /\ totp' = att.totp
    /\ ran' = ran \cup {"center"}
    /\ pc' = "recenter"
    /\ UNCHANGED <<sfm, poseMap, vi, frames, up, nframes, R, avglen, out, failure>>
    /\ UNCHANGED <<c2w, runVars>>

\* lines 161-162
Recenter ==
    /\ pc = "recenter"
    /\ frames' = RecenterAll[frames, totp]
    /\ ran' = ran \cup {"recenter"}
    /\ pc' = "avglen"
    /\ UNCHANGED <<sfm, poseMap, vi, up, nframes, R, totw, totp, avglen, out, failure>>
    /\ UNCHANGED <<c2w, runVars>>

\* lines 164-168: with no frame avglen is still the Python float 0. and the
\* division by nframes = 0 raises; otherwise avglen is a numpy float
AvgLen ==
    /\ pc = "avglen"
    /\ IF nframes = 0
       THEN /\ Raise("ZeroDivisionError")
            /\ avglen' = Zero
            /\ UNCHANGED ran
       ELSE /\ avglen' = Div[NormSum(frames, Len(frames)), Fl(nframes)]
            /\ ran' = ran \cup {"avglen"}
            /\ pc' = "scale"
            /\ UNCHANGED failure
    /\ UNCHANGED <<sfm, poseMap, vi, frames, up, nframes, R, totw, totp, out>>
    /\ UNCHANGED <<c2w, runVars>>

\* lines 169-173
Scale ==
    /\ pc = "scale"
    /\ frames' = ScaleAll(frames, avglen)
    /\ ran' = ran \cup {"scale"}
    /\ pc' = "intrinsics"
    /\ UNCHANGED <<sfm, poseMap, vi, up, nframes, R, totw, totp, avglen, out, failure>>
    /\ UNCHANGED <<c2w, runVars>>

\* lines 175-187: the fields of intrinsics[0] (their values are taken to be
\* valid numbers with a non-zero focal length)
ReadIntrinsics ==
    /\ pc = "intrinsics"
    /\ IF ({"intrinsics"} \cup IntrinsicFields) \ sfm.has # {}
       THEN Raise("KeyError")
       ELSE /\ pc' = "write"
            /\ UNCHANGED failure
    /\ UNCHANGED <<sfm, poseMap, vi, frames, up, nframes, R, totw, totp, avglen,
                   out, ran>>
    /\ UNCHANGED <<c2w, runVars>>

\* lines 189-208: json.dump writes NaN and Infinity as they are
WriteOut ==
    /\ pc = "write"
    /\ out' = [written |-> TRUE, frames |-> frames]
    /\ pc' = "done"
    /\ UNCHANGED <<sfm, poseMap, vi, frames, up, nframes, R, totw, totp, avglen,
                   failure, ran>>
    /\ UNCHANGED <<c2w, runVars>>

Next ==
    \/ LoadSfm
    \/ BuildPoseMap
    \/ EnterViewLoop
    \/ NextView
    \/ ExitViewLoop
    \/ UpVector
    \/ AttentionCenter
    \/ Recenter
    \/ AvgLen
    \/ Scale
    \/ ReadIntrinsics
    \/ WriteOut

Spec == Init /\ [][Next]_vars

\* ------------------------------------------------------ rotmat on its own
\* Largest absolute coordinate of an up-vector sum handed to rotmat.
MaxCoord == 4

\* the non-zero integer vectors of rational length
UpVectors ==
    {<<Fl(a), Fl(b), Fl(c)>> : a, b, c \in (0 - MaxCoord)..MaxCoord} \
    {v \in {<<Fl(a), Fl(b), Fl(c)>> : a, b, c \in (0 - MaxCoord)..MaxCoord} :
        v = VZero \/ ~IsSquare(NormSq[v])}

InitRotmat ==
    /\ sfm = SfmOf(<<>>, "none")
    /\ pc = "rotmat"
    /\ poseMap = <<>>
    /\ vi = 0
    /\ frames = <<>>
    /\ up \in UpVectors
    /\ nframes = 0
    /\ R = Eye4
    /\ totw = Zero
    /\ totp = VZero
    /\ avglen = Zero
    /\ out = [written |-> FALSE, frames |-> <<>>]
    /\ failure = "none"
    /\ ran = {}
    /\ c2w = Eye4
    /\ RunIdle

\* lines 138-142 applied to the sum up
ApplyRotmat ==
    /\ pc = "rotmat"
    /\ up' = VDiv[up, Norm[up]]
    /\ R' = UpRotation[up']
    /\ pc' = "rotmat_done"
    /\ UNCHANGED <<sfm, poseMap, vi, frames, nframes, totw, totp, avglen, out,
                   failure, ran>>
    /\ UNCHANGED <<c2w, runVars>>

NextRotmat == ApplyRotmat

SpecRotmat == InitRotmat /\ [][NextRotmat]_vars

\* ------------------------------------- the axis convention on its own
\* Largest seed of the rows a matrix handed to the axis-convention
\* transforms is made of.
MaxRowSeed == 2

\* the rows: one per seed, and a row of non-finite entries
AxisRows ==
    {<<Fl(k), Fl(0 - (2 * k)), Q[1, k + 1], Fl(k * k + 1)>> : k \in 0..MaxRowSeed}
    \cup {<<NaN, PInf, NInf, Fl(7)>>}

\* the 4x4 matrices np.linalg.inv may have left in c2w at line 123
AxisInputs == {<<a, b, c, d>> : a, b, c, d \in AxisRows}

InitAxes ==
    /\ sfm = SfmOf(<<>>, "none")
    /\ pc = "axes"
    /\ poseMap = <<>>
    /\ vi = 0
    /\ frames = <<>>
    /\ up = VZero
    /\ nframes = 0
    /\ R = Eye4
    /\ totw = Zero
    /\ totp = VZero
    /\ avglen = Zero
    /\ out = [written |-> FALSE, frames |-> <<>>]
    /\ failure = "none"
    /\ ran = {}
    /\ c2w \in AxisInputs
    /\ RunIdle

\* lines 124-127 applied to c2w
ApplyAxes ==
    /\ pc = "axes"
    /\ c2w' = AxisConvention(c2w)
    /\ pc' = "axes_done"
    /\ UNCHANGED <<sfm, poseMap, vi, frames, up, nframes, R, totw, totp, avglen,
                   out, failure, ran, runVars>>

NextAxes == ApplyAxes

SpecAxes == InitAxes /\ [][NextAxes]_vars

\* ------------------------------------------- run.py: snapshot timepoints
\* run.py line 221
timepoints == <<7200, 86400>>

\* run.py line 222
timepoint_count == Len(timepoints)

\* the values of --time_offset, --max_time and the seconds that pass between
\* two looks at the progress bar's clock
TimeOffsets == {0, 1, 7199, 7200, 7201, 86399, 86400, 86401}

MaxTimes == {0, 50000}

ElapsedSteps == {3600, 36000}

\* The training loop of the model ends when the clock has passed MaxElapsed
\* seconds; n_steps is 0 or MaxTrainSteps.
MaxElapsed == 90000

MaxTrainSteps == 4

\* run.py lines 227-230: the while loop, entered with current_timepoint = cur
RECURSIVE SkipPassed(_, _)
SkipPassed(cur, offset) ==
    IF cur < timepoint_count
    THEN IF timepoints[cur + 1] > offset THEN cur ELSE SkipPassed(cur + 1, offset)
    ELSE cur

\* the subscript i of a read timepoints[i] is an index of the list (Python
\* takes a negative subscript from the end; the claim counts it as out of
\* range and run.py never produces one)
InRange(i) == 0 <= i /\ i < timepoint_count

InitRun ==
    /\ sfm = SfmOf(<<>>, "none")
    /\ pc = "timepoints"
    /\ poseMap = <<>>
    /\ vi = 0
    /\ frames = <<>>
    /\ up = VZero
    /\ nframes = 0
    /\ R = Eye4
    /\ totw = Zero
    /\ totp = VZero
    /\ avglen = Zero
    /\ out = [written |-> FALSE, frames |-> <<>>]
    /\ failure = "none"
    /\ ran = {}
    /\ c2w = Eye4
    /\ time_offset \in TimeOffsets
    /\ current_timepoint = 0
    /\ save_snapshot \in BOOLEAN
    /\ max_time \in MaxTimes
    /\ gui \in BOOLEAN
    /\ n_steps \in {0, MaxTrainSteps}
    /\ shall_train \in (IF gui THEN BOOLEAN ELSE {TRUE})
    /\ training_step = 0
    /\ elapsed = 0

scriptVars == <<sfm, poseMap, vi, frames, up, nframes, R, totw, totp, avglen,
                out, ran, c2w>>

\* run.py lines 221-230
SelectTimepoint ==
    /\ pc = "timepoints"
    /\ current_timepoint' = IF time_offset > 0 THEN SkipPassed(0, time_offset) ELSE 0
    /\ pc' = "target"
    /\ UNCHANGED <<scriptVars, failure, time_offset, save_snapshot, max_time, gui,
                   n_steps, shall_train, training_step, elapsed>>

\* run.py line 232: the print reads timepoints[current_timepoint]; lines
\* 261-270: the training loop is entered when n_steps > 0
PrintTarget ==
    /\ pc = "target"
    /\ IF InRange(current_timepoint)
       THEN /\ pc' = IF n_steps > 0 THEN "train" ELSE "run_done"
            /\ UNCHANGED failure
       ELSE Raise("IndexError")
    /\ UNCHANGED <<scriptVars, runVars>>

\* run.py lines 271-310: one iteration of the training loop, testbed.frame()
\* having returned True.  train is testbed.shall_train as the iteration sees
\* it (the GUI may switch it), d the seconds passed since the last iteration.
TrainingFrame ==
    /\ pc = "train"
    /\ elapsed < MaxElapsed
    /\ \E d \in ElapsedSteps, train \in (IF gui THEN BOOLEAN ELSE {shall_train}) :
          /\ elapsed' = elapsed + d
          /\ training_step' = IF train THEN training_step + 1 ELSE training_step
          /\ IF train /\ save_snapshot /\ ~InRange(current_timepoint)
             THEN \* line 280 reads timepoints[current_timepoint]
                  /\ Raise("IndexError")
                  /\ UNCHANGED <<current_timepoint, shall_train>>
             ELSE LET snap == /\ train
                              /\ save_snapshot
                              /\ elapsed' + time_offset >= timepoints[current_timepoint + 1]
                      next == IF snap THEN current_timepoint + 1 ELSE current_timepoint
                  IN /\ current_timepoint' = next
                     /\ UNCHANGED failure
                     /\ IF snap /\ next >= timepoint_count
                        THEN \* line 284
                             pc' = "run_done" /\ shall_train' = train
                        ELSE IF max_time # 0 /\ elapsed' + time_offset >= max_time
                        THEN \* line 290
                             pc' = "run_done" /\ shall_train' = train
                        ELSE IF training_step' >= n_steps
                        THEN IF gui
                             THEN pc' = "train" /\ shall_train' = FALSE
                             ELSE pc' = "run_done" /\ shall_train' = train
                        ELSE pc' = "train" /\ shall_train' = train
    /\ UNCHANGED <<scriptVars, time_offset, save_snapshot, max_time, gui, n_steps>>

\* run.py line 271: testbed.frame() returns False
FrameEnds ==
    /\ pc = "train"
    /\ pc' = "run_done"
    /\ UNCHANGED <<scriptVars, failure, runVars>>

NextRun ==
    \/ SelectTimepoint
    \/ PrintTarget
    \/ TrainingFrame
    \/ FrameEnds

SpecRun == InitRun /\ [][NextRun]_vars

\* ---------------------------------------------------------------- claims
Block(m) == <<Row3(m, 1), Row3(m, 2), Row3(m, 3)>>

Transpose3(m) == <<Col3(m, 1), Col3(m, 2), Col3(m, 3)>>

MatVec3(m, v) == <<Dot[m[1], v], Dot[m[2], v], Dot[m[3], v]>>

Orthonormal(m) == MatMul3[Transpose3(m), m] = Eye3

MatFinite(m) == \A i \in DOMAIN m : \A j \in DOMAIN m[i] : IsFinite(m[i][j])

FramesFinite(fs) == \A i \in 1..Len(fs) : MatFinite(fs[i].transform_matrix)

FramePaths(fs) == [i \in 1..Len(fs) |-> fs[i].file_path]

ViewIds(s) == [i \in 1..Len(s.views) |-> s.views[i].poseId]

\* the record lacks none of its fields
CompleteRecord == sfm = SfmOf(ViewIds(sfm), "none")

\* C1: when no ordered pair of frames has weight > 0.01 (the weight sum is
\* zero after the all-pairs loop), the run ends in a reported
\* InsufficientConvergence failure and no frame is recentred, scaled or
\* written.
C1_InsufficientConvergence ==
    ("center" \in ran /\ totw = Zero) =>
        /\ pc = "failed"
        /\ failure = "InsufficientConvergence"
        /\ ran \cap {"recenter", "scale"} = {}
        /\ ~out.written

\* C2: when the mean norm of the recentred translation columns is zero, the
\* run ends in a reported ZeroMeanDistance failure: nothing is scaled and no
\* output is written.
C2_ZeroMeanDistance ==
    ("avglen" \in ran /\ avglen = Zero) =>
        /\ pc = "failed"
        /\ failure = "ZeroMeanDistance"
        /\ "scale" \notin ran
        /\ ~out.written

\* C3: on an input record that lacks a required field no stage ever runs, the
\* run does not complete and no output is written.
C3_MalformedFailsAtLoad ==
    ~CompleteRecord => (ran = {} /\ pc # "done" /\ ~out.written)

HasPose(view) == view.poseId \in PoseIds

\* the file paths of the frames due for the first k views: one per view
\* whose poseId is a poseId of the pose table, in the order of the views
ExpectedPaths(k) ==
    LET sel == SelectSeq(SubSeq(sfm.views, 1, k), HasPose)
    IN [i \in 1..Len(sel) |-> <<"imgpath", sel[i].path[2]>>]

AfterViewLoop ==
    {"up", "center", "recenter", "avglen", "scale", "intrinsics", "write", "done", "failed"}

ExtractedUpSum ==
    LET Sum[fs \in FrameList] == UpSum(fs, Len(fs))
    IN Sum[FramesOf(sfm.views, poseMap, Len(sfm.views))]

\* C5: when the up columns of the frames sum to the zero vector, the up stage
\* leaves a well-defined rotation and well-defined frame transforms.
C5_DegenerateUpGuarded ==
    ("up" \in ran /\ nframes > 0 /\ ExtractedUpSum = VZero) =>
        (MatFinite(R) /\ FramesFinite(frames))

\* C6: for every non-zero up vector u the matrix R = rotmat(u, (0,0,1)) is a
\* rotation that takes u/|u| to (0,0,1).
C6_RotmatAlignsUp ==
    pc = "rotmat_done" =>
        /\ MatVec3(Block(R), up) = <<Zero, Zero, One>>
        /\ Orthonormal(Block(R))
        /\ Det3M(Block(R)) = One

\* C7: the upper-left 3x3 block of every frame's transform is orthonormal
\* after every stage (every SfM rotation of the model is orthonormal).
C7_BlocksOrthonormal ==
    \A i \in 1..Len(frames) : Orthonormal(Block(frames[i].transform_matrix))

\* C8: after the scale stage on frames whose mean recentred camera distance
\* is positive, the mean norm of the translation columns is 4.0.
C8_MeanDistanceIsFour ==
    ("scale" \in ran /\ Gt[avglen, Zero]) =>
        Div[NormSum(frames, Len(frames)), Fl(nframes)] = Fl(4)

\* C8 witness: scaled frames of at least two cameras at a positive mean
\* distance, not all at the same distance from the attention point.
C8_Witness ==
    /\ "scale" \in ran
    /\ Gt[avglen, Zero]
    /\ \E i, j \in 1..Len(frames) :
          Norm[Trans(frames[i].transform_matrix)] # Norm[Trans(frames[j].transform_matrix)]

\* fs reordered by the permutation s of its indices
Permuted(fs, s) == [i \in 1..Len(fs) |-> fs[s[i]]]

\* C9: the accumulated weight sum, the accumulated weighted point sum and
\* the attention point are the same for every permutation of the frame list.
C9_AttentionOrderInvariant ==
    pc = "recenter" =>
        \A acc \in {Accumulate(frames, Len(frames) * Len(frames))} :
            /\ acc.totw = totw
            /\ VDiv[acc.totp, acc.totw] = totp
            /\ \A s \in Permutations(1..Len(frames)) :
                  Accumulate(Permuted(frames, s), Len(frames) * Len(frames)) = acc

\* C9 witness: an attention point accumulated over three frames whose three
\* pairs have three different weights.
C9_Witness ==
    /\ pc = "recenter"
    /\ Len(frames) = 3
    /\ VFinite(totp)
    /\ Cardinality({PairOf(frames, 2)[2], PairOf(frames, 3)[2], PairOf(frames, 6)[2]}) = 3

\* the factors the camera centres are multiplied by
ScaleFactors == {Q[1, 2], Fl(2), Fl(3)}

\* the record s with every camera centre multiplied by k
ScaleCenters(s, k) ==
    [s EXCEPT !.poses = [i \in 1..Len(s.poses) |->
                            [s.poses[i] EXCEPT !.center = VScale[s.poses[i].center, k]]]]

\* lines 56-173 on the views and the pose map of a record whose run reaches
\* the output: the frames written
RunFrames(views, pm) ==
    LET Scaled[fs \in FrameList] ==
            ScaleAll(fs, Div[NormSum(fs, Len(fs)), Fl(Len(fs))])
        Recentred[fs \in FrameList] == Scaled[RecenterAll[fs, Attention(fs).totp]]
        Rotated[fs \in FrameList, upsum \in Vec] ==
            Recentred[RotateAll[fs, UpRotation[VDiv[upsum, Norm[upsum]]]]]
        Extracted[fs \in FrameList] == Rotated[fs, UpSum(fs, Len(fs))]
    IN Extracted[FramesOf(views, pm, Len(views))]

\* C10: the frames written for an input whose camera centres are all
\* multiplied by k > 0 are the frames written for the input itself.
C10_ScaleInvariant ==
    out.written =>
        \A k \in ScaleFactors :
            \A s \in {ScaleCenters(sfm, k)} :
                \A pm \in {PoseMapOf(s.poses)} : RunFrames(s.views, pm) = out.frames

\* C10 witness: an output with finite transforms of at least two cameras that
\* the up rotation turned.
C10_Witness ==
    /\ out.written
    /\ Len(out.frames) >= 2
    /\ FramesFinite(out.frames)
    /\ R # Eye4

\* the inverse of the row permutation of line 126: row RowOrder[i] of the
\* result is row i of m
InversePermuteRows(m) ==
    [i \in 1..4 |-> m[CHOOSE k \in 1..4 : RowOrder[k] = i]]

\* the inverses of the four transforms of lines 124-127, in reverse order
AxisConventionInverse(m) ==
    NegateColumn[NegateColumn[InversePermuteRows(NegateRow[m, 3]), 2], 3]

\* C11: the axis-convention transforms followed by their inverses in reverse
\* order give back the matrix they were applied to, for every 4x4 matrix.
C11_AxisRoundTrip ==
    [][(pc = "axes" /\ pc' = "axes_done") => AxisConventionInverse(c2w') = c2w]_vars

\* C11 witness: the transforms have acted on a matrix with two different
\* leading rows and have changed it.
C11_Witness ==
    /\ pc = "axes_done"
    /\ c2w[1] # c2w[2]
    /\ AxisConventionInverse(c2w) # c2w

\* fs2 differs from fs1 in the translation columns only: the same number of
\* frames, and frame by frame the same file_path, 3x3 block and bottom row
OnlyTranslationChanged(fs1, fs2) ==
    /\ Len(fs2) = Len(fs1)
    /\ \A i \in 1..Len(fs1) :
          /\ fs2[i].file_path = fs1[i].file_path
          /\ Block(fs2[i].transform_matrix) = Block(fs1[i].transform_matrix)
          /\ fs2[i].transform_matrix[4] = fs1[i].transform_matrix[4]
          /\ fs2[i].transform_matrix[4] = <<Zero, Zero, Zero, One>>

\* C12: the recentring step and the scaling step change nothing but the
\* translation columns of the frames, and the recentring step subtracts the
\* one attention point totp from every translation column.
C12_OnlyTranslationChanges ==
    [][/\ (pc = "recenter" /\ pc' = "avglen") =>
             /\ OnlyTranslationChanged(frames, frames')
             /\ \A i \in 1..Len(frames) :
                   Trans(frames'[i].transform_matrix) =
                       VSub[Trans(frames[i].transform_matrix), totp]
       /\ (pc = "scale" /\ pc' = "intrinsics") =>
             OnlyTranslationChanged(frames, frames')]_vars

\* C12 witness: both stages have acted on at least two frames, the first
\* with a finite non-zero attention point, the second with a factor other
\* than 1.
C12_Witness ==
    /\ "scale" \in ran
    /\ Len(frames) >= 2
    /\ VFinite(totp)
    /\ totp # VZero
    /\ IsFinite(avglen)
    /\ avglen # Zero
    /\ avglen # Fl(4)

\* min(t, 0) of a float
MinZero(t) == IF Gt[t, Zero] THEN Zero ELSE t

\* C13: for every pair of the all-pairs loop the point closest_point_2_lines
\* returns is 0.5 * ((oa + ta' * da) + (ob + tb' * db)) with ta' = min(ta, 0)
\* and tb' = min(tb, 0) of the Cramer's-rule offsets; when both offsets are
\* positive it is the midpoint of the two ray origins.
C13_OffsetsClamped ==
    pc = "recenter" =>
        \A k \in 1..(Len(frames) * Len(frames)) :
            \A o \in {OffsetsOf(frames, k)} :
            \A p \in {PairOf(frames, k)[1]} :
            \A oa \in {Trans(FirstOf(frames, k))} :
            \A ob \in {Trans(SecondOf(frames, k))} :
               /\ p = VScale[VAdd[VAdd[oa, VScale[o[1], MinZero(o[3])]],
                                  VAdd[ob, VScale[o[2], MinZero(o[4])]]], Q[1, 2]]
               /\ (Gt[o[3], Zero] /\ Gt[o[4], Zero]) =>
                     p = VScale[VAdd[oa, ob], Q[1, 2]]

\* C13 witness: the loop has run over a pair of rays of non-zero weight whose
\* closest points lie at positive offsets on both rays.
C13_Witness ==
    /\ pc = "recenter"
    /\ \E k \in 1..(Len(frames) * Len(frames)) :
          /\ Gt[OffsetsOf(frames, k)[3], Zero]
          /\ Gt[OffsetsOf(frames, k)[4], Zero]
          /\ Gt[PairOf(frames, k)[2], Q[1, 100]]

\* C14: in the all-pairs loop a pair's weighted point and weight are added to
\* the accumulators exactly when its weight is greater than 0.01; a frame
\* paired with itself has weight exactly zero; after the loop the weight sum
\* is 0 or greater than 0.01.
C14_ThresholdGate ==
    pc = "recenter" =>
        /\ \A k \in 1..(Len(frames) * Len(frames)) :
              \A pw \in {PairOf(frames, k)} :
              \A prev \in {Accumulate(frames, k - 1)} :
              \A next \in {Accumulate(frames, k)} :
                 IF Gt[pw[2], Q[1, 100]]
                 THEN /\ next.totw = Add[prev.totw, pw[2]]
                      /\ next.totp = VAdd[prev.totp, VScale[pw[1], pw[2]]]
                 ELSE next = prev
        /\ \A i \in 1..Len(frames) :
              PairOf(frames, (i - 1) * Len(frames) + i)[2] = Zero
        /\ (totw = Zero \/ Gt[totw, Q[1, 100]])

\* the index in the nested loops of the pair (g, f), for the k-th pair (f, g)
SwappedIndex(n, k) == ((k - 1) % n) * n + ((k - 1) \div n) + 1

\* the accumulators of a reduction over the unordered pairs of distinct
\* frames: of the first k pairs of the nested loops only those with f before
\* g are taken, with the same threshold
RECURSIVE UnorderedAccumulate(_, _)
UnorderedAccumulate(fs, k) ==
    IF k = 0 THEN [totw |-> Zero, totp |-> VZero]
    ELSE IF (k - 1) \div Len(fs) < (k - 1) % Len(fs)
    THEN AddPair[UnorderedAccumulate(fs, k - 1), PairOf(fs, k)]
    ELSE UnorderedAccumulate(fs, k - 1)

\* C15: closest_point_2_lines gives the same point and weight for (f, g) and
\* for (g, f), and the attention point of the nested loop over all ordered
\* pairs is the attention point of the reduction over the unordered pairs of
\* distinct frames.
C15_SymmetricPairs ==
    pc = "recenter" =>
        /\ \A k \in 1..(Len(frames) * Len(frames)) :
              PairOf(frames, k) = PairOf(frames, SwappedIndex(Len(frames), k))
        /\ \A u \in {UnorderedAccumulate(frames, Len(frames) * Len(frames))} :
              totp = VDiv[u.totp, u.totw]

\* C15 witness: a finite attention point of at least two frames, with an
\* accumulated pair of two frames at different positions, and a weight sum
\* that is not the weight sum of the unordered pairs.
C15_Witness ==
    /\ pc = "recenter"
    /\ VFinite(totp)
    /\ \E k \in 1..(Len(frames) * Len(frames)) :
          /\ Gt[PairOf(frames, k)[2], Q[1, 100]]
          /\ Trans(FirstOf(frames, k)) # Trans(SecondOf(frames, k))
    /\ totw # UnorderedAccumulate(frames, Len(frames) * Len(frames)).totw

\* C16: every read of timepoints[current_timepoint], at the print of the
\* target timepoint and in the training loop, has its subscript within the
\* list; no run of run.py dies of an IndexError.
C16_TimepointInRange ==
    /\ pc = "target" => InRange(current_timepoint)
    /\ (pc = "train" /\ save_snapshot) => InRange(current_timepoint)
    /\ failure # "IndexError"

====
